---------------------------- MODULE Spec2Model ----------------------------
(***************************************************************************)
(* Model of the Trusted-Properties client (src/client/trustedproperties.ts *)
(* and src/client/main.ts): the account schema, the seed and address       *)
(* derivation, the create-or-reuse provisioning of the agreement account   *)
(* and the initialize instruction.                                         *)
(*                                                                         *)
(* Strings are sequences of one-character strings, byte buffers are        *)
(* sequences of integers in 0..255.                                        *)
(***************************************************************************)
EXTENDS Integers, Sequences, FiniteSets

VARIABLES
    programState,     \* ledger: "absent" | "nonexec" | "exec" (account at programId)
    accounts,         \* ledger: set of account records created with seed
    pc,               \* per run: position of main() / the awaited call
    payer,            \* per run: module variable `payer`
    agreementPubkey,  \* per run: module variable `agreementPubkey`
    observed,         \* per run: result of getAccountInfo(agreementPubkey)
    createAttempts,   \* per run: create-account transactions submitted
    createOutcome,    \* per run: what sendAndConfirmTransaction reported
    initSubmitted,    \* per run: initialize instructions submitted
    sentInit,         \* ledger inbox: initialize instructions received
    exitCode,         \* per run: process exit code
    success,          \* per run: 'Success' was printed
    error,            \* per run: the call whose exception rejected the run
    input,            \* pure-function specifications: the drawn arguments
    output            \* pure-function specifications: the computed result

vars == <<programState, accounts, pc, payer, agreementPubkey, observed,
          createAttempts, createOutcome, initSubmitted, sentInit, exitCode,
          success, error, input, output>>

protoVars == <<programState, accounts, pc, payer, agreementPubkey, observed,
               createAttempts, createOutcome, initSubmitted, sentInit,
               exitCode, success, error>>

\* The null of connection.getAccountInfo: no account at the address.
NULL == {}

-----------------------------------------------------------------------------
(* Byte-level helpers                                                      *)

Zeros(n) == [i \in 1..n |-> 0]

\* bn.js toArray('le', length): `length` is a number of BYTES; the value is
\* written little-endian and zero-padded to exactly `length` bytes.
RECURSIVE BNToArrayLE(_, _)
BNToArrayLE(n, length) ==
    IF length = 0 THEN <<>>
    ELSE <<n % 256>> \o BNToArrayLE(n \div 256, length - 1)

RECURSIVE Concat(_)
Concat(seqs) ==
    IF seqs = <<>> THEN <<>> ELSE Head(seqs) \o Concat(Tail(seqs))

-----------------------------------------------------------------------------
(* Base58 (bs58), the text form of a PublicKey                             *)

BASE58_ALPHABET ==
    << "1","2","3","4","5","6","7","8","9",
       "A","B","C","D","E","F","G","H","J","K","L","M","N","P","Q","R","S",
       "T","U","V","W","X","Y","Z",
       "a","b","c","d","e","f","g","h","i","j","k","m","n","o","p","q","r",
       "s","t","u","v","w","x","y","z" >>

\* UTF-8 code of each alphabet character, in alphabet order.
BASE58_CODES ==
    << 49,50,51,52,53,54,55,56,57,
       65,66,67,68,69,70,71,72,74,75,76,77,78,80,81,82,83,
       84,85,86,87,88,89,90,
       97,98,99,100,101,102,103,104,105,106,107,109,110,111,112,113,114,
       115,116,117,118,119,120,121,122 >>

Base58Index(ch) == (CHOOSE i \in 1..58 : BASE58_ALPHABET[i] = ch) - 1

LeadingCount(s, x) ==
    IF \A i \in 1..Len(s) : s[i] = x THEN Len(s)
    ELSE (CHOOSE i \in 1..Len(s) : s[i] # x /\ \A j \in 1..(i-1) : s[j] = x) - 1

\* One long division of a big-endian byte string by 58: `r` is the running
\* remainder, `q` the quotient's bytes so far.
RECURSIVE LongDiv58(_, _, _)
LongDiv58(bytes, r, q) ==
    IF bytes = <<>> THEN [quot |-> q, rem |-> r]
    ELSE LongDiv58(Tail(bytes), (r * 256 + Head(bytes)) % 58,
                   Append(q, (r * 256 + Head(bytes)) \div 58))

RECURSIVE Base58Digits(_)
Base58Digits(bytes) ==
    IF \A i \in 1..Len(bytes) : bytes[i] = 0 THEN <<>>
    ELSE LET d == LongDiv58(bytes, 0, <<>>)
         IN  Base58Digits(d.quot) \o <<d.rem>>

\* bs58.encode: one '1' per leading zero byte, then the number in base 58.
Base58Encode(bytes) ==
    LET digits == Base58Digits(bytes)
    IN  [i \in 1..LeadingCount(bytes, 0) |-> "1"]
        \o [i \in 1..Len(digits) |-> BASE58_ALPHABET[digits[i] + 1]]

\* bytes * 58 + d on a big-endian byte string, from the last byte to the
\* first: `carry` is the running carry (d at the start), `out` the bytes done.
RECURSIVE MulAdd58(_, _, _)
MulAdd58(bytes, carry, out) ==
    IF bytes = <<>>
    THEN IF carry = 0 THEN out ELSE <<carry>> \o out
    ELSE MulAdd58(SubSeq(bytes, 1, Len(bytes) - 1),
                  (bytes[Len(bytes)] * 58 + carry) \div 256,
                  <<(bytes[Len(bytes)] * 58 + carry) % 256>> \o out)

RECURSIVE Base58Number(_, _)
Base58Number(chars, acc) ==
    IF chars = <<>> \/ Len(acc) < 0 THEN acc
    ELSE Base58Number(Tail(chars),
                      MulAdd58(acc, Base58Index(Head(chars)), <<>>))

\* bs58.decode: one zero byte per leading '1', then the number's bytes.
Base58Decode(str) ==
    LET k == LeadingCount(str, "1")
    IN  Zeros(k) \o Base58Number(SubSeq(str, k + 1, Len(str)), <<>>)

-----------------------------------------------------------------------------
(* PublicKey (web3.js): 32 bytes, written in base 58                       *)

PUBLIC_KEY_LENGTH == 32

\* new PublicKey(0)
ZeroKey == Zeros(PUBLIC_KEY_LENGTH)

\* new PublicKey("<base58>"): the decoded bytes, which must be 32.
PublicKeyFromString(str) ==
    LET decoded == Base58Decode(str)
    IN  IF Len(decoded) = PUBLIC_KEY_LENGTH THEN decoded ELSE <<>>

\* key.toBytes(): big-endian, zero-padded on the left to 32 bytes.
ToBytes(key) == Zeros(PUBLIC_KEY_LENGTH - Len(key)) \o key

\* key.toString() / key.toBase58()
ToBase58(key) == Base58Encode(ToBytes(key))

OWNER_STRING ==
    << "E","J","B","C","N","z","i","g","N","d","K","M","i","C","u","e","X","N",
       "a","Y","n","3","C","c","c","M","J","q","m","B","8","D","L","P","Z","K",
       "g","f","e","T","W","Q","r","h" >>

TENANT_STRING ==
    << "E","G","i","k","G","1","U","R","S","B","T","i","3","D","c","2","A","H",
       "w","T","V","4","H","B","D","W","u","1","K","m","b","c","D","6","3","r",
       "T","b","Y","W","v","9","C","u" >>

ownerPubkey == PublicKeyFromString(OWNER_STRING)

tenantPubkey == PublicKeyFromString(TENANT_STRING)

AGREEMENT_TAG == << "a","g","r","e","e","m","e","n","t" >>

\* 'agreement' + ownerPubkey.toString() + tenantPubkey.toString()
AgreementSeed(owner, tenant) ==
    AGREEMENT_TAG \o ToBase58(owner) \o ToBase58(tenant)

AGREEMENT_SEED == AgreementSeed(ownerPubkey, tenantPubkey)

\* PublicKey.createWithSeed(base, seed, programId) is sha256 of
\* base || seed || programId.  The digest is not computed: the address is
\* represented by its preimage, which is the collision-free hash (base and
\* programId have a fixed width, so the preimage determines all three).
CreateWithSeed(base, seed, program) ==
    [base |-> base, seed |-> seed, owner |-> program]

-----------------------------------------------------------------------------
(* Borsh serialisation of an AgreementAccount under AgreementSchema        *)

\* UTF-8 bytes of a text over the base-58 alphabet.
Utf8(str) == [i \in 1..Len(str) |-> BASE58_CODES[Base58Index(str[i]) + 1]]

\* borsh 'string': u32 little-endian byte length, then the UTF-8 bytes.
BorshString(str) == BNToArrayLE(Len(Utf8(str)), 4) \o Utf8(str)

\* borsh 'u8', 'u16', 'u64': fixed-width little-endian.
BorshU8(n) == BNToArrayLE(n, 1)

BorshU16(n) == BNToArrayLE(n, 2)

BorshU64(n) == BNToArrayLE(n, 8)

\* class AgreementAccount with its default field values.
NewAgreementAccount ==
    [status |-> 0, owner_pubkey |-> ZeroKey, tenant_pubkey |-> ZeroKey,
     security_escrow_pubkey |-> ZeroKey, security_deposit |-> 0,
     rent_amount |-> 0, duration |-> 0, remaining_payments |-> 0,
     start_month |-> 0, start_year |-> 0, duration_extension_request |-> 0]

\* borsh.serialize(AgreementSchema, account): the fields in schema order.  The
\* three identity fields are declared 'string'; an identity is written in its
\* text form.
BorshSerialize(a) ==
    Concat(<< BorshU8(a.status),
              BorshString(ToBase58(a.owner_pubkey)),
              BorshString(ToBase58(a.tenant_pubkey)),
              BorshString(ToBase58(a.security_escrow_pubkey)),
              BorshU64(a.security_deposit),
              BorshU64(a.rent_amount),
              BorshU8(a.duration),
              BorshU8(a.remaining_payments),
              BorshU8(a.start_month),
              BorshU16(a.start_year),
              BorshU8(a.duration_extension_request) >>)

AGREEMENT_SIZE == Len(BorshSerialize(NewAgreementAccount))

-----------------------------------------------------------------------------
(* The data buffer of the initialize instruction (initContract)            *)

instruction_index == 0

InstructionData(owner, tenant, agreement, deposit, rentAmount, duration, start_month, start_year) ==
    Concat(<< <<instruction_index>>,
              ToBytes(owner),
              ToBytes(tenant),
              ToBytes(agreement),
              BNToArrayLE(deposit, 64),
              BNToArrayLE(rentAmount, 64),
              BNToArrayLE(duration, 8),
              BNToArrayLE(start_month, 8),
              BNToArrayLE(start_year, 16) >>)

-----------------------------------------------------------------------------
(* Inputs of the pure-function specifications                              *)

\* Two 43-character and two 44-character identities besides the zero key and
\* the two identities of the source.
KeyA == <<1>> \o Zeros(31)

KeyB == <<58>> \o Zeros(30) \o <<1>>

KeyC == << 15, 219, 175, 218, 103, 202, 55, 24, 140, 242, 130, 99, 87, 31, 3,
           185, 113, 104, 121, 228, 172, 201, 197, 20, 171, 103, 40 >>
        \o Zeros(5)

Identities == {ZeroKey, ownerPubkey, tenantPubkey, KeyA, KeyB, KeyC}

SmallIdentities == {ZeroKey, ownerPubkey, KeyA}

\* The protocol variables, at rest in the pure-function specifications.
ProtoIdle ==
    /\ programState = "absent"
    /\ accounts = {}
    /\ sentInit = {}
    /\ pc = <<>> /\ payer = <<>> /\ agreementPubkey = <<>> /\ observed = <<>>
    /\ createAttempts = <<>> /\ createOutcome = <<>> /\ initSubmitted = <<>>
    /\ exitCode = <<>> /\ success = <<>> /\ error = <<>>

(* Seed and address derivation for two (owner, tenant) pairs *)

SEED_BASE == <<"cli", 0>>

SEED_PROGRAM == "program"

SeedInit ==
    /\ ProtoIdle
    /\ input \in [o1 : Identities, t1 : Identities,
                  o2 : Identities, t2 : Identities]
    /\ output = [done |-> FALSE]

DeriveBoth ==
    /\ ~output.done
    /\ output' =
         [done |-> TRUE,
          seed1 |-> AgreementSeed(input.o1, input.t1),
          seed2 |-> AgreementSeed(input.o2, input.t2),
          addr1 |-> CreateWithSeed(SEED_BASE,
                       AgreementSeed(input.o1, input.t1), SEED_PROGRAM),
          addr2 |-> CreateWithSeed(SEED_BASE,
                       AgreementSeed(input.o2, input.t2), SEED_PROGRAM)]
    /\ UNCHANGED <<input, protoVars>>

SeedNext == DeriveBoth

SpecSeed == SeedInit /\ [][SeedNext]_vars

(* Serialisation of an agreement record *)

CodecInit ==
    /\ ProtoIdle
    /\ input \in [status : {0, 1},
                  owner_pubkey : SmallIdentities,
                  tenant_pubkey : SmallIdentities,
                  security_escrow_pubkey : SmallIdentities,
                  security_deposit : {0, 1000},
                  rent_amount : {0, 500},
                  duration : {0, 11},
                  remaining_payments : {0},
                  start_month : {0, 12},
                  start_year : {0, 2022},
                  duration_extension_request : {0}]
    /\ output = [done |-> FALSE]

Serialize ==
    /\ ~output.done
    /\ output' = [done |-> TRUE, data |-> BorshSerialize(input)]
    /\ UNCHANGED <<input, protoVars>>

CodecNext == Serialize

SpecCodec == CodecInit /\ [][CodecNext]_vars

(* Data buffer of the initialize instruction *)

InstrInit ==
    /\ ProtoIdle
    /\ input \in [owner : SmallIdentities, tenant : SmallIdentities,
                  escrow : SmallIdentities,
                  deposit : {0, 1000}, rentAmount : {500, 70000},
                  duration : {11, 255}, start_month : {1, 12},
                  start_year : {2022, 65535}]
    /\ output = [done |-> FALSE]

BuildInstruction ==
    /\ ~output.done
    /\ output' = [done |-> TRUE,
                  data |-> InstructionData(input.owner, input.tenant,
                              input.escrow, input.deposit, input.rentAmount,
                              input.duration, input.start_month,
                              input.start_year)]
    /\ UNCHANGED <<input, protoVars>>

InstrNext == BuildInstruction

SpecInstr == InstrInit /\ [][InstrNext]_vars

-----------------------------------------------------------------------------
(* The client runs against the ledger                                      *)

\* Number of client processes (runs of main) in a behaviour.
NumRuns == 3

Runs == 1..NumRuns

\* programId: the public key read from the program's keypair file.
PROGRAM_ID == "programId"

NoPayer == <<"none", 0>>

\* `agreementPubkey` before checkProgram assigns it.
NoAddress == [base |-> NoPayer, seed |-> <<>>, owner |-> "none"]

\* getPayer(): the keypair of the CLI configuration.
CliPayer == <<"cli", 0>>

\* newAccountWithLamports(): a keypair generated by this run.
NewPayer(r) == <<"new", r>>

\* main(): the step awaited after each step returns.
AfterStep_InitFirst(step) ==
    CASE step = "establishConnection" -> "establishPayer"
      [] step = "establishPayer"      -> "initContract"
      [] step = "initContract"        -> "checkProgram_keypair"
      [] step = "checkProgram"        -> "done"

AfterStep(step) ==
    CASE step = "establishConnection" -> "establishPayer"
      [] step = "establishPayer"      -> "checkProgram_keypair"
      [] step = "checkProgram"        -> "initContract"
      [] step = "initContract"        -> "done"

\* Where control goes when the call at `site` throws: nothing in
\* checkProgram or initContract catches (the keypair catch rethrows), so
\* main's promise rejects.
OnThrow_RetryCreate(site) ==
    IF site = "create" THEN "checkProgram_create" ELSE "failed"

OnThrow_SwallowCreate(site) ==
    IF site = "create" THEN "initContract" ELSE "failed"

OnThrow_SwallowKeypair(site) ==
    IF site = "keypair" THEN "checkProgram_programInfo" ELSE "failed"

OnThrow(site) == "failed"

\* The run's variables after an exception at `site`; main's rejection
\* handler exits with -1.
Throw(r, site) ==
    /\ error' = [error EXCEPT ![r] = site]
    /\ pc' = [pc EXCEPT ![r] = OnThrow(site)]
    /\ exitCode' = [exitCode EXCEPT ![r] =
                       IF OnThrow(site) = "failed" THEN "-1" ELSE @]

\* connection.getAccountInfo(address) for an address derived with a seed:
\* the account at the address, or NULL.
GetAccountInfo(address) ==
    {a \in accounts : a.address = address}

\* agreementAccount === null
AccountMissing_Always(info) == TRUE

AccountMissing(info) == info = NULL

\* connection.getMinimumBalanceForRentExemption(size): the ledger's rent
\* rule, two years of rent for the data and the account's 128-byte header.
MinimumBalanceForRentExemption(size) == (128 + size) * 6960

\* The system program creates an account only at an address not in use.
LedgerAccepts(address) == ~ \E a \in accounts : a.address = address

Init ==
    /\ programState \in {"absent", "nonexec", "exec"}
    /\ accounts = {}
    /\ sentInit = {}
    /\ pc = [r \in Runs |-> "start"]
    /\ payer = [r \in Runs |-> NoPayer]
    /\ agreementPubkey = [r \in Runs |-> NoAddress]
    /\ observed = [r \in Runs |-> "none"]
    /\ createAttempts = [r \in Runs |-> 0]
    /\ createOutcome = [r \in Runs |-> "none"]
    /\ initSubmitted = [r \in Runs |-> 0]
    /\ exitCode = [r \in Runs |-> "running"]
    /\ success = [r \in Runs |-> FALSE]
    /\ error = [r \in Runs |-> "none"]
    /\ input = <<>>
    /\ output = <<>>

\* `npm run deploy`, by the operator: the program account appears.
DeployProgram ==
    /\ programState = "absent"
    /\ programState' = "exec"
    /\ UNCHANGED <<accounts, pc, payer, agreementPubkey, observed,
                   createAttempts, createOutcome, initSubmitted, sentInit,
                   exitCode, success, error, input, output>>

\* A client process starts and main awaits establishConnection().  The
\* processes are alike, so they are numbered in the order they start.
EstablishConnection(r) ==
    /\ pc[r] = "start"
    /\ \A q \in Runs : q < r => pc[q] # "start"
    /\ \E ok \in BOOLEAN :
         IF ok
         THEN /\ pc' = [pc EXCEPT ![r] = AfterStep("establishConnection")]
              /\ UNCHANGED <<error, exitCode>>
         ELSE Throw(r, "establishConnection")
    /\ UNCHANGED <<programState, accounts, payer, agreementPubkey, observed,
                   createAttempts, createOutcome, initSubmitted, sentInit,
                   success, input, output>>

\* establishPayer(): `payer` is unset in a new process; getPayer() gives the
\* CLI keypair, and when it throws a new funded keypair is generated.  A
\* failing network call (blockhash, rent, airdrop, balance) rejects.
EstablishPayer(r) ==
    /\ pc[r] = "establishPayer"
    /\ \E outcome \in {"cli", "new", "rpcError"} :
         CASE outcome = "cli" ->
                /\ payer' = [payer EXCEPT ![r] = CliPayer]
                /\ pc' = [pc EXCEPT ![r] = AfterStep("establishPayer")]
                /\ UNCHANGED <<error, exitCode>>
           [] outcome = "new" ->
                /\ payer' = [payer EXCEPT ![r] = NewPayer(r)]
                /\ pc' = [pc EXCEPT ![r] = AfterStep("establishPayer")]
                /\ UNCHANGED <<error, exitCode>>
           [] outcome = "rpcError" ->
                /\ Throw(r, "establishPayer")
                /\ UNCHANGED payer
    /\ UNCHANGED <<programState, accounts, agreementPubkey, observed,
                   createAttempts, createOutcome, initSubmitted, sentInit,
                   success, input, output>>

\* checkProgram(): createKeypairFromFile(PROGRAM_KEYPAIR_PATH).
ReadProgramKeypair(r) ==
    /\ pc[r] = "checkProgram_keypair"
    /\ \E readable \in BOOLEAN :
         IF readable
         THEN /\ pc' = [pc EXCEPT ![r] = "checkProgram_programInfo"]
              /\ UNCHANGED <<error, exitCode>>
         ELSE Throw(r, "keypair")
    /\ UNCHANGED <<programState, accounts, payer, agreementPubkey, observed,
                   createAttempts, createOutcome, initSubmitted, sentInit,
                   success, input, output>>

\* checkProgram(): getAccountInfo(programId), the deployed/executable checks
\* and the derivation of agreementPubkey.
GetProgramInfo(r) ==
    /\ pc[r] = "checkProgram_programInfo"
    /\ \E rpcOk \in BOOLEAN :
         CASE ~rpcOk ->
                /\ Throw(r, "programInfo")
                /\ UNCHANGED agreementPubkey
           [] rpcOk /\ programState = "absent" ->
                /\ Throw(r, "notDeployed")
                /\ UNCHANGED agreementPubkey
           [] rpcOk /\ programState = "nonexec" ->
                /\ Throw(r, "notExecutable")
                /\ UNCHANGED agreementPubkey
           [] rpcOk /\ programState = "exec" ->
                /\ agreementPubkey' = [agreementPubkey EXCEPT ![r] =
                       CreateWithSeed(payer[r], AGREEMENT_SEED, PROGRAM_ID)]
                /\ pc' = [pc EXCEPT ![r] = "checkProgram_query"]
                /\ UNCHANGED <<error, exitCode>>
    /\ UNCHANGED <<programState, accounts, payer, observed, createAttempts,
                   createOutcome, initSubmitted, sentInit, success, input,
                   output>>

\* checkProgram(): getAccountInfo(agreementPubkey) and the null test.
QueryAgreement(r) ==
    /\ pc[r] = "checkProgram_query"
    /\ \E rpcOk \in BOOLEAN :
         IF rpcOk
         THEN LET info == GetAccountInfo(agreementPubkey[r])
              IN  /\ observed' = [observed EXCEPT ![r] =
                         IF info = NULL THEN "absent" ELSE "present"]
                  /\ pc' = [pc EXCEPT ![r] =
                         IF AccountMissing(info) THEN "checkProgram_rent"
                         ELSE AfterStep("checkProgram")]
                  /\ UNCHANGED <<error, exitCode>>
         ELSE /\ Throw(r, "query")
              /\ UNCHANGED observed
    /\ UNCHANGED <<programState, accounts, payer, agreementPubkey,
                   createAttempts, createOutcome, initSubmitted, sentInit,
                   success, input, output>>

\* checkProgram(): getMinimumBalanceForRentExemption(AGREEMENT_SIZE).
GetRentExemption(r) ==
    /\ pc[r] = "checkProgram_rent"
    /\ \E rpcOk \in BOOLEAN :
         IF rpcOk
         THEN /\ pc' = [pc EXCEPT ![r] = "checkProgram_create"]
              /\ UNCHANGED <<error, exitCode>>
         ELSE Throw(r, "rent")
    /\ UNCHANGED <<programState, accounts, payer, agreementPubkey, observed,
                   createAttempts, createOutcome, initSubmitted, sentInit,
                   success, input, output>>

\* The account createAccountWithSeed asks for.
NewAgreementOnLedger(r) ==
    [address   |-> agreementPubkey[r],
     lamports  |-> MinimumBalanceForRentExemption(AGREEMENT_SIZE),
     space     |-> AGREEMENT_SIZE,
     owner     |-> PROGRAM_ID,
     createdBy |-> r]

\* checkProgram(): sendAndConfirmTransaction of createAccountWithSeed.  The
\* transaction is dropped, or reaches the ledger, which creates the account
\* unless the address is in use; a confirmation can be lost after the
\* transaction has landed, and the call then throws as for a rejection.
SubmitCreate(r) ==
    /\ pc[r] = "checkProgram_create"
    /\ createAttempts' = [createAttempts EXCEPT ![r] = @ + 1]
    /\ \E net \in {"confirmed", "lost", "dropped"} :
         CASE net = "confirmed" /\ LedgerAccepts(agreementPubkey[r]) ->
                /\ accounts' = accounts \cup {NewAgreementOnLedger(r)}
                /\ createOutcome' = [createOutcome EXCEPT ![r] = "confirmed"]
                /\ pc' = [pc EXCEPT ![r] = AfterStep("checkProgram")]
                /\ UNCHANGED <<error, exitCode>>
           [] net = "lost" /\ LedgerAccepts(agreementPubkey[r]) ->
                /\ accounts' = accounts \cup {NewAgreementOnLedger(r)}
                /\ createOutcome' = [createOutcome EXCEPT ![r] = "unknown"]
                /\ Throw(r, "create")
           [] OTHER ->
                /\ accounts' = accounts
                /\ createOutcome' = [createOutcome EXCEPT ![r] = "rejected"]
                /\ Throw(r, "create")
    /\ UNCHANGED <<programState, payer, agreementPubkey, observed,
                   initSubmitted, sentInit, success, input, output>>

\* initContract(): the instruction's accounts and program (its data buffer
\* is InstructionData), sent with sendAndConfirmTransaction; on success main
\* prints 'Success' and exits.
SubmitInit(r) ==
    /\ pc[r] = "initContract"
    /\ initSubmitted' = [initSubmitted EXCEPT ![r] = @ + 1]
    /\ sentInit' = sentInit \cup
         {[keys |-> <<agreementPubkey[r], agreementPubkey[r],
                      "SYSVAR_RENT_PUBKEY">>,
           programId |-> PROGRAM_ID,
           signer |-> payer[r]]}
    /\ \E ok \in BOOLEAN :
         IF ok
         THEN /\ pc' = [pc EXCEPT ![r] = AfterStep("initContract")]
              /\ success' = [success EXCEPT ![r] = TRUE]
              /\ exitCode' = [exitCode EXCEPT ![r] = "0"]
              /\ UNCHANGED error
         ELSE /\ Throw(r, "initContract")
              /\ UNCHANGED success
    /\ UNCHANGED <<programState, accounts, payer, agreementPubkey, observed,
                   createAttempts, createOutcome, input, output>>

Next ==
    \/ DeployProgram
    \/ \E r \in Runs :
         \/ EstablishConnection(r)
         \/ EstablishPayer(r)
         \/ ReadProgramKeypair(r)
         \/ GetProgramInfo(r)
         \/ QueryAgreement(r)
         \/ GetRentExemption(r)
         \/ SubmitCreate(r)
         \/ SubmitInit(r)

Spec == Init /\ [][Next]_vars

(* Runs one after the other: a process starts when the earlier ones ended *)

Ended(r) == pc[r] \in {"done", "failed"}

EstablishConnectionAfter(r) ==
    /\ \A q \in Runs : q < r => Ended(q)
    /\ EstablishConnection(r)

NextSeq ==
    \/ DeployProgram
    \/ \E r \in Runs :
         \/ EstablishConnectionAfter(r)
         \/ EstablishPayer(r)
         \/ ReadProgramKeypair(r)
         \/ GetProgramInfo(r)
         \/ QueryAgreement(r)
         \/ GetRentExemption(r)
         \/ SubmitCreate(r)
         \/ SubmitInit(r)

SpecSeq == Init /\ [][NextSeq]_vars

-----------------------------------------------------------------------------
(* Claims about the pure functions                                         *)

\* Little-endian bytes of n at width w, as the wire format states them.
RECURSIVE LittleEndian(_, _)
LittleEndian(n, w) ==
    IF w = 0 THEN <<>> ELSE <<n % 256>> \o LittleEndian(n \div 256, w - 1)

\* C3: the data buffer of the initialize instruction is exactly the
\* discriminant 0, the owner, tenant and escrow-placeholder identities (32
\* bytes each), deposit and rent amount (8 bytes each, little-endian),
\* duration and start month (1 byte each) and start year (2 bytes,
\* little-endian): 117 bytes and no others.
C3_InstructionLayout ==
    output.done =>
        /\ Len(output.data) = 117
        /\ output.data = <<0>> \o ToBytes(input.owner) \o ToBytes(input.tenant)
                    \o ToBytes(input.escrow)
                    \o LittleEndian(input.deposit, 8)
                    \o LittleEndian(input.rentAmount, 8)
                    \o LittleEndian(input.duration, 1)
                    \o LittleEndian(input.start_month, 1)
                    \o LittleEndian(input.start_year, 2)

\* C8: every agreement record serialises to a buffer of the same length, the
\* canonical AGREEMENT_SIZE of the zero-valued record.
C8_SizeInvariance ==
    output.done => Len(output.data) = AGREEMENT_SIZE

\* C9: two distinct (owner, tenant) pairs have different seeds and, under
\* the same base and program, different derived addresses; the same pair has
\* the same seed and address.
C9_SeedsDistinct ==
    output.done =>
        /\ (input.o1 # input.o2 \/ input.t1 # input.t2)
              => (output.seed1 # output.seed2 /\ output.addr1 # output.addr2)
        /\ (input.o1 = input.o2 /\ input.t1 = input.t2)
              => (output.seed1 = output.seed2 /\ output.addr1 = output.addr2)

-----------------------------------------------------------------------------
(* Claims about the client runs                                            *)

CheckProgramSites ==
    {"keypair", "programInfo", "notDeployed", "notExecutable", "query",
     "rent", "create"}

\* C1: a run of checkProgram that finds an account at the derived address
\* submits no create-account transaction and creates nothing on the ledger,
\* for every run that finds it.
C1_IdempotentProvisioning ==
    \A r \in Runs :
        observed[r] = "present" =>
            /\ createAttempts[r] = 0
            /\ createOutcome[r] = "none"
            /\ \A a \in accounts : a.createdBy # r

C1_Witness ==
    \E r1, r2 \in Runs :
        /\ r1 # r2
        /\ observed[r1] = "present" /\ pc[r1] = "done"
        /\ observed[r2] = "present" /\ pc[r2] = "done"
        /\ GetAccountInfo(agreementPubkey[r1]) # NULL
        /\ GetAccountInfo(agreementPubkey[r2]) # NULL

\* C2: over runs made one after the other for the same owner and tenant,
\* every complete run derives the same address, a later complete run
\* submits no creation, and the complete runs created one account.
C2_CreatedOncePerPair ==
    /\ \A r1, r2 \in Runs :
          (pc[r1] = "done" /\ pc[r2] = "done")
              => agreementPubkey[r1] = agreementPubkey[r2]
    /\ \A r1, r2 \in Runs :
          (r1 < r2 /\ pc[r1] = "done" /\ pc[r2] = "done")
              => createAttempts[r2] = 0
    /\ Cardinality({a \in accounts : pc[a.createdBy] = "done"}) <= 1

\* C4: a run submits the create-account transaction at most once, and a
\* failed submission ends the run instead of being retried.
C4_AtMostOneCreate ==
    \A r \in Runs :
        /\ createAttempts[r] <= 1
        /\ createOutcome[r] \in {"rejected", "unknown"}
              => (createAttempts[r] = 1 /\ pc[r] = "failed")

C4_Witness ==
    \E r \in Runs :
        /\ createOutcome[r] = "rejected"
        /\ createAttempts[r] = 1
        /\ pc[r] = "failed"

\* C5: when runs provision the same address concurrently the ledger holds
\* at most one account there, a run whose creation is rejected fails with
\* that error and submits no initialize, and a run that finds the account
\* existing proceeds to initContract.
C5_ConcurrentProvisioning ==
    /\ \A a1, a2 \in accounts : a1.address = a2.address => a1 = a2
    /\ \A r \in Runs :
          createOutcome[r] = "rejected" =>
              /\ pc[r] = "failed"
              /\ error[r] = "create"
              /\ exitCode[r] = "-1"
              /\ initSubmitted[r] = 0
    /\ \A r \in Runs :
          observed[r] = "present" =>
              \/ pc[r] \in {"initContract", "done"}
              \/ pc[r] = "failed" /\ error[r] = "initContract"

C5_Witness ==
    \E r1, r2, r3 \in Runs :
        /\ agreementPubkey[r1] = agreementPubkey[r2]
        /\ agreementPubkey[r1] = agreementPubkey[r3]
        /\ observed[r1] = "absent" /\ createOutcome[r1] = "confirmed"
        /\ observed[r2] = "absent" /\ createOutcome[r2] = "rejected"
        /\ exitCode[r2] = "-1"
        /\ observed[r3] = "present" /\ pc[r3] = "done"

\* C6: a failure inside checkProgram (keypair, program check, account
\* query, rent query, create submission) ends the run with exit code -1,
\* with no initialize submitted and no 'Success'.
C6_FailureAborts ==
    \A r \in Runs :
        error[r] \in CheckProgramSites =>
            /\ pc[r] = "failed"
            /\ exitCode[r] = "-1"
            /\ initSubmitted[r] = 0
            /\ ~success[r]

C6_Witness ==
    \E r1, r2, r3 \in Runs :
        /\ error[r1] = "notDeployed" /\ exitCode[r1] = "-1"
        /\ error[r2] = "create" /\ exitCode[r2] = "-1"
        /\ error[r3] = "keypair" /\ exitCode[r3] = "-1"

\* C7: when an earlier run created the agreement account and ended without
\* sending initialize, a later run for the same owner and tenant that
\* queries the ledger finds that account at its derived address, submits no
\* creation and, when it completes, has sent initialize for that account.
C7_ResumeAfterPartialProgress ==
    \A r1, r2 \in Runs :
        ( /\ r1 < r2
          /\ Ended(r1)
          /\ initSubmitted[r1] = 0
          /\ \E a \in accounts : a.createdBy = r1
          /\ observed[r2] # "none" )
        => /\ agreementPubkey[r2] = agreementPubkey[r1]
           /\ observed[r2] = "present"
           /\ createAttempts[r2] = 0
           /\ pc[r2] = "done" => initSubmitted[r2] = 1

\* C10: initialize is submitted only once the program is deployed and
\* executable, the address is derived and the account exists there (seen by
\* the query or created and confirmed); a run submits it at most once and a
\* successful run exactly once.
C10_InitAfterProvisioning ==
    \A r \in Runs :
        /\ initSubmitted[r] <= 1
        /\ success[r] => (initSubmitted[r] = 1 /\ pc[r] = "done")
        /\ initSubmitted[r] >= 1 =>
              /\ programState = "exec"
              /\ payer[r] # NoPayer
              /\ agreementPubkey[r] =
                     CreateWithSeed(payer[r], AGREEMENT_SEED, PROGRAM_ID)
              /\ GetAccountInfo(agreementPubkey[r]) # NULL
              /\ observed[r] = "present" \/ createOutcome[r] = "confirmed"

C10_Witness ==
    \E r1, r2 \in Runs :
        /\ success[r1] /\ observed[r1] = "absent"
        /\ createOutcome[r1] = "confirmed"
        /\ success[r2] /\ observed[r2] = "present"
        /\ initSubmitted[r1] = 1 /\ initSubmitted[r2] = 1

=============================================================================
